---- MODULE Spec2Model ----
(***************************************************************************)
(* Model of src/tts_load_balancer.js: the backend registry, the periodic  *)
(* health prober with its circuit breaker, pickInstance and the           *)
(* POST /generate proxy handler.                                          *)
(*                                                                         *)
(* Node runs every callback to completion, so each action below is one    *)
(* run-to-completion segment of the code: from the start of a handler or  *)
(* the resumption after an `await` up to the next `await`, return or      *)
(* scheduled callback.                                                     *)
(*                                                                         *)
(* Time is Date.now() in abstract units.  A timer fires when the clock    *)
(* reaches its deadline: the clock does not advance past a pending         *)
(* deadline (the interval timer, a probe's abort timer, a dispatch's      *)
(* abort timer).  A resolved upstream.text() and a setImmediate callback  *)
(* run within the current turn of the event loop, before the clock moves. *)
(*                                                                         *)
(* Runtime: the image installs Node 18 (src/Dockerfile:17) and the file   *)
(* imports no fetch implementation (tts_load_balancer.js:5-7), so `fetch` *)
(* is Node's built-in one.  Its Response.body is a WHATWG ReadableStream  *)
(* (methods getReader, pipeTo, pipeThrough, tee, cancel) or null; null    *)
(* only for a null-body status (204, 205, 304).  A ReadableStream has no  *)
(* `pipe` property, so line 162 `upstream.body.pipe(res)` raises a        *)
(* TypeError whenever the response has a body; the TypeError is raised    *)
(* inside the try block and lands in the catch block of line 177.         *)
(***************************************************************************)
EXTENDS Integers, Sequences, FiniteSets, TLC

(* ---------------- configuration (load_balancer_config.json) ------------ *)
\* values the configuration file sets, in clock units; as with the defaults,
\* probe timeout < probe interval = request timeout < breaker duration
\* The event-driven behaviour is explored with one configured backend: the
\* code couples backends only through pickInstance, which is explored on its
\* own over registries of several backends (SpecPick below).
NumInstances == 1
HEALTH_INTERVAL_MS == 2
HEALTH_TIMEOUT_MS == 1
MAX_ACTIVE == 2
UPSTREAM_TIMEOUT_MS == 2
MAX_CONSEC_FAILS == 2
CIRCUIT_BREAKER_MS == 3

(* ---------------- bounds of the exploration ---------------------------- *)
MaxTime == 6         \* the clock stops here
MaxRequests == 3     \* POST /generate handlers running at the same time
MaxFailures == 3     \* no further failing response once the count is here

Instances == 1 .. NumInstances
Requests == 1 .. MaxRequests

VARIABLES
    now,        \* Date.now()
    instances,  \* the registry: one record per configured port
    probes,     \* per instance, the start times of its probes awaiting fetch
    nextCheck,  \* the time the setInterval timer fires next
    req         \* per inbound POST /generate, the state of its handler

vars == <<now, instances, probes, nextCheck, req>>

(* ---------------- registry --------------------------------------------- *)
NewInstance ==
    [healthy |-> FALSE, activeRequests |-> 0, consecutiveFailures |-> 0,
     circuitOpenUntil |-> 0, lastChecked |-> 0]

NewRequest ==
    [pc |-> "idle", inst |-> 0, start |-> 0, timedOut |-> FALSE,
     upstream |-> "none", hasBody |-> FALSE, status |-> 0, signal |-> "none"]

(* ---------------- health prober ---------------------------------------- *)
\* variant: a skipped probe re-arms the breaker
ProbeSkippedExtends(b, t) ==
    [b EXCEPT !.healthy = FALSE, !.lastChecked = t,
              !.circuitOpenUntil = t + CIRCUIT_BREAKER_MS]

\* probeInstance, lines 48-52: the circuit is open, no network call
ProbeSkipped(b, t) ==
    [b EXCEPT !.healthy = FALSE, !.lastChecked = t]

\* variant: a successful probe keeps the failure count
ProbeOutcomeKeepCount(b, ok) ==
    IF ok
    THEN [b EXCEPT !.healthy = TRUE]
    ELSE [b EXCEPT !.healthy = FALSE, !.consecutiveFailures = @ + 1]

\* probeInstance, lines 57-67: the outcome of the awaited fetch
\* (ok: res.ok; otherwise a non-OK status, a rejected fetch or an abort)
ProbeOutcome(b, ok) ==
    IF ok
    THEN [b EXCEPT !.healthy = TRUE, !.consecutiveFailures = 0]
    ELSE [b EXCEPT !.healthy = FALSE, !.consecutiveFailures = @ + 1]

\* variant: the circuit is opened without resetting the count
ProbeFinallyKeepCount(b, t) ==
    LET c == [b EXCEPT !.lastChecked = t]
    IN  IF c.consecutiveFailures >= MAX_CONSEC_FAILS
        THEN [c EXCEPT !.circuitOpenUntil = t + CIRCUIT_BREAKER_MS]
        ELSE c

\* probeInstance, lines 68-77: the finally block
ProbeFinally(b, t) ==
    LET c == [b EXCEPT !.lastChecked = t]
    IN  IF c.consecutiveFailures >= MAX_CONSEC_FAILS
        THEN [c EXCEPT !.circuitOpenUntil = t + CIRCUIT_BREAKER_MS,
                       !.consecutiveFailures = 0]
        ELSE c

\* variant: a backend that is not healthy is not probed either
ProbeStartsIfHealthy(i) ==
    /\ ~ (now < instances[i].circuitOpenUntil)
    /\ instances[i].healthy

\* probeInstance up to its await (or its early return), for one instance
ProbeStarts(i) == ~ (now < instances[i].circuitOpenUntil)

\* runHealthChecks fired by setInterval: every instance is probed
RunHealthChecks ==
    /\ now >= nextCheck
    /\ nextCheck' = now + HEALTH_INTERVAL_MS
    /\ instances' = [i \in Instances |->
                       IF ProbeStarts(i) THEN instances[i]
                       ELSE ProbeSkipped(instances[i], now)]
    /\ probes' = [i \in Instances |->
                    IF ProbeStarts(i) THEN probes[i] \cup {now}
                    ELSE probes[i]]
    /\ UNCHANGED <<now, req>>

\* the fetch of a probe resolves or rejects before its abort timer (armed
\* for d time units, line 55) fires, or is aborted by it (ok = FALSE) when
\* the deadline is reached
ProbeCompletesWithin(d, i, s, ok) ==
    /\ s \in probes[i]
    /\ now <= s + d
    /\ probes' = [probes EXCEPT ![i] = @ \ {s}]
    /\ instances' = [instances EXCEPT
                       ![i] = ProbeFinally(ProbeOutcome(@, ok), now)]
    /\ UNCHANGED <<now, nextCheck, req>>

ProbeCompletes(i, s, ok) == ProbeCompletesWithin(HEALTH_TIMEOUT_MS, i, s, ok)

(* ---------------- selector --------------------------------------------- *)
\* variant: the filter forgets the circuit deadline
EligibleNoCircuit(b, t) ==
    /\ b.healthy
    /\ b.activeRequests < MAX_ACTIVE

\* variant: the filter forgets the cap
EligibleNoCap(b, t) ==
    /\ b.healthy
    /\ t >= b.circuitOpenUntil

\* pickInstance, lines 93-95: the filter predicate
Eligible(b, t) ==
    /\ b.healthy
    /\ t >= b.circuitOpenUntil
    /\ b.activeRequests < MAX_ACTIVE

\* variant: an unstable sort, equal elements change places
RECURSIVE InsertByActiveUnstable(_, _, _)
InsertByActiveUnstable(reg, sorted, x) ==
    IF sorted = <<>> THEN <<x>>
    ELSE IF reg[x].activeRequests - reg[Head(sorted)].activeRequests <= 0
         THEN <<x>> \o sorted
         ELSE <<Head(sorted)>> \o InsertByActiveUnstable(reg, Tail(sorted), x)

\* Array.prototype.sort with the comparator of line 98; the sort is stable
RECURSIVE InsertByActive(_, _, _)
InsertByActive(reg, sorted, x) ==
    IF sorted = <<>> THEN <<x>>
    ELSE IF reg[x].activeRequests - reg[Head(sorted)].activeRequests < 0
         THEN <<x>> \o sorted
         ELSE <<Head(sorted)>> \o InsertByActive(reg, Tail(sorted), x)

RECURSIVE SortByActive(_, _)
SortByActive(reg, s) ==
    IF s = <<>> THEN <<>>
    ELSE InsertByActive(reg, SortByActive(reg, SubSeq(s, 1, Len(s) - 1)),
                        s[Len(s)])

\* pickInstance, lines 90-100; 0 stands for null
pickInstance(reg, t) ==
    LET order == [k \in 1 .. Cardinality(DOMAIN reg) |-> k]
        Test(i) == Eligible(reg[i], t)
        candidates == SelectSeq(order, Test)
    IN  IF Len(candidates) = 0 THEN 0
        ELSE SortByActive(reg, candidates)[1]

(* ---------------- status reporter -------------------------------------- *)
\* variant: the count forgets the circuit deadline
healthyCountNoCircuit(reg, t) ==
    LET order == [k \in 1 .. Cardinality(DOMAIN reg) |-> k]
        Test(i) == reg[i].healthy
    IN  Len(SelectSeq(order, Test))

\* GET /health, line 104: instances.filter(...).length
healthyCount(reg, t) ==
    LET order == [k \in 1 .. Cardinality(DOMAIN reg) |-> k]
        Test(i) == reg[i].healthy /\ t >= reg[i].circuitOpenUntil
    IN  Len(SelectSeq(order, Test))

\* GET /health, line 106: the status field.  The handler reads the registry
\* and writes nothing (lines 103-116), as does GET /_stats (lines 209-218).
healthStatus(reg, t) ==
    IF healthyCount(reg, t) > 0 THEN "ok" ELSE "degraded"

(* ---------------- proxy gateway ---------------------------------------- *)
\* req[r] is the handler running in slot r: "idle" before any request, "done"
\* after a 503 (nothing of that request is left but the response), "fetch",
\* "text" and "release" while awaiting fetch, upstream.text() and the
\* setImmediate callback
Resting == {"idle", "done"}

\* variant: the selection failure is reported as a backend failure
RespondUnavailableAsFailure(q) ==
    [q EXCEPT !.pc = "done", !.status = 502, !.signal = "TTS_INSTANCE_FAILURE"]

\* lines 121-129: no selectable instance
RespondUnavailable(q) ==
    [q EXCEPT !.pc = "done", !.status = 503, !.signal = "NO_TTS_AVAILABLE"]

\* lines 131-147: admit, arm the abort timer, await fetch
Admit(q, i, t) ==
    [q EXCEPT !.pc = "fetch", !.inst = i, !.start = t]

\* POST /generate up to its first await (or its 503 return).  A new request
\* takes the first slot that holds no running handler.
Generate(r) ==
    /\ req[r].pc \in Resting
    /\ \A p \in Requests : p < r => req[p].pc \notin Resting
    /\ LET i == pickInstance(instances, now)
       IN  IF i = 0
           THEN /\ req' = [req EXCEPT ![r] = RespondUnavailable(NewRequest)]
                /\ UNCHANGED instances
           ELSE /\ instances' = [instances EXCEPT ![i].activeRequests = @ + 1]
                /\ req' = [req EXCEPT ![r] = Admit(NewRequest, i, now)]
    /\ UNCHANGED <<now, probes, nextCheck>>

\* variant: the catch block does not count the failure
CatchBlockNoCount(b, t) ==
    [b EXCEPT !.healthy = FALSE]

\* lines 177-201: the catch block
CatchBlock(b, t) ==
    LET c == [b EXCEPT !.healthy = FALSE, !.consecutiveFailures = @ + 1]
    IN  IF c.consecutiveFailures >= MAX_CONSEC_FAILS
        THEN [c EXCEPT !.circuitOpenUntil = t + CIRCUIT_BREAKER_MS,
                       !.consecutiveFailures = 0]
        ELSE c

\* variant: the catch block responds and the handler ends without
\* scheduling the release
CatchResponseNoRelease(q) ==
    [NewRequest EXCEPT !.pc = "done",
                       !.status = IF q.timedOut THEN 504 ELSE 502,
                       !.signal = IF q.timedOut THEN "TTS_INSTANCE_TIMEOUT"
                                  ELSE "TTS_INSTANCE_FAILURE"]

\* lines 182-194 and the finally block: the response of the catch block,
\* then the release callback is scheduled
CatchResponse(q) ==
    IF q.timedOut
    THEN [q EXCEPT !.pc = "release", !.status = 504,
                   !.signal = "TTS_INSTANCE_TIMEOUT"]
    ELSE [q EXCEPT !.pc = "release", !.status = 502,
                   !.signal = "TTS_INSTANCE_FAILURE"]

\* variant: the release is scheduled without awaiting and sending the body
AwaitTextReleased(q) == [q EXCEPT !.pc = "release"]

\* lines 168-169: no body, await upstream.text()
AwaitText(q) == [q EXCEPT !.pc = "text"]

\* lines 170-175 and the finally block: res.send with the upstream status
\* (a null-body status: 204 when ok, 304 otherwise), then the release
\* callback is scheduled
SendText(q) ==
    [q EXCEPT !.pc = "release",
              !.status = IF q.upstream = "2xx" THEN 204 ELSE 304]

\* variant: a relayed 2xx response marks the backend healthy
AccountMarksHealthy(b, ok) ==
    IF ok THEN [b EXCEPT !.consecutiveFailures = 0, !.healthy = TRUE]
    ELSE [b EXCEPT !.consecutiveFailures = @ + 1]

\* lines 173-175: accounting after the response has been relayed
Account(b, ok) ==
    IF ok THEN [b EXCEPT !.consecutiveFailures = 0]
    ELSE [b EXCEPT !.consecutiveFailures = @ + 1]

\* line 204: the setImmediate callback
Decrement(b) ==
    [b EXCEPT !.activeRequests = IF @ - 1 > 0 THEN @ - 1 ELSE 0]

\* The awaited fetch resolves with a response (ok: status 2xx) before the
\* abort timer fires; lines 149-171.  With a body, line 162 throws and the
\* catch block runs with timedOut = false.  Without one, the handler awaits
\* upstream.text().
FetchResolves(r, ok, body) ==
    /\ req[r].pc = "fetch"
    /\ now <= req[r].start + UPSTREAM_TIMEOUT_MS
    /\ ~ ok /\ ~ body =>
          instances[req[r].inst].consecutiveFailures < MaxFailures
    /\ LET i == req[r].inst
           q == [req[r] EXCEPT !.upstream = IF ok THEN "2xx" ELSE "non2xx",
                               !.hasBody = body]
       IN  IF body
           THEN /\ instances' = [instances EXCEPT ![i] = CatchBlock(@, now)]
                /\ req' = [req EXCEPT ![r] = CatchResponse(q)]
           ELSE /\ req' = [req EXCEPT ![r] = AwaitText(q)]
                /\ UNCHANGED instances
    /\ UNCHANGED <<now, probes, nextCheck>>

\* lines 169-175 and the finally block: upstream.text() has resolved, the
\* body is sent with the upstream status, the outcome is accounted
TextResolves(r) ==
    /\ req[r].pc = "text"
    /\ LET i == req[r].inst
           ok == req[r].upstream = "2xx"
       IN  /\ instances' = [instances EXCEPT ![i] = Account(@, ok)]
           /\ req' = [req EXCEPT ![r] = SendText(@)]
    /\ UNCHANGED <<now, probes, nextCheck>>

\* variant: no abort timer is armed, the fetch rejects only on a connection
\* failure
FetchRejectsNoTimer(r, timedOut) ==
    /\ req[r].pc = "fetch"
    /\ timedOut = FALSE
    /\ now <= req[r].start + UPSTREAM_TIMEOUT_MS
    /\ LET i == req[r].inst
       IN  /\ instances' = [instances EXCEPT ![i] = CatchBlock(@, now)]
           /\ req' = [req EXCEPT ![r] =
                        CatchResponse([@ EXCEPT !.timedOut = timedOut])]
    /\ UNCHANGED <<now, probes, nextCheck>>

\* The awaited fetch rejects: a connection failure before the deadline
\* (timedOut = false), or the abort issued by the timer of lines 137-140
\* at the deadline (timedOut = true)
FetchRejects(r, timedOut) ==
    /\ req[r].pc = "fetch"
    /\ IF timedOut
       THEN now >= req[r].start + UPSTREAM_TIMEOUT_MS
       ELSE now <= req[r].start + UPSTREAM_TIMEOUT_MS
    /\ LET i == req[r].inst
       IN  /\ instances' = [instances EXCEPT ![i] = CatchBlock(@, now)]
           /\ req' = [req EXCEPT ![r] =
                        CatchResponse([@ EXCEPT !.timedOut = timedOut])]
    /\ UNCHANGED <<now, probes, nextCheck>>

\* the handler and its callbacks are over, its locals are gone
Finished(q) == NewRequest

\* lines 202-205: the callback scheduled by the finally block runs
Release(r) ==
    /\ req[r].pc = "release"
    /\ instances' = [instances EXCEPT ![req[r].inst] = Decrement(@)]
    /\ req' = [req EXCEPT ![r] = Finished(@)]
    /\ UNCHANGED <<now, probes, nextCheck>>

(* ---------------- clock ------------------------------------------------ *)
\* d: the duration of a probe's abort timer
TickWithin(d) ==
    /\ now < MaxTime
    /\ now < nextCheck
    /\ \A i \in Instances : \A s \in probes[i] : now < s + d
    /\ \A r \in Requests :
          req[r].pc = "fetch" => now < req[r].start + UPSTREAM_TIMEOUT_MS
    /\ \A r \in Requests : req[r].pc \notin {"text", "release"}
    /\ now' = now + 1
    /\ UNCHANGED <<instances, probes, nextCheck, req>>

Tick == TickWithin(HEALTH_TIMEOUT_MS)

(* ---------------- specification ---------------------------------------- *)
\* lines 35-43 and line 86: the registry as constructed, the first
\* runHealthChecks() already awaiting its probes, the interval timer armed
Init ==
    /\ now = 0
    /\ instances = [i \in Instances |-> NewInstance]
    /\ probes = [i \in Instances |-> {0}]
    /\ nextCheck = HEALTH_INTERVAL_MS
    /\ req = [r \in Requests |-> NewRequest]

Next ==
    \/ RunHealthChecks
    \/ \E i \in Instances : \E s \in 0 .. MaxTime : \E ok \in BOOLEAN :
          ProbeCompletes(i, s, ok)
    \/ \E r \in Requests : Generate(r)
    \/ \E r \in Requests : \E ok \in BOOLEAN : \E body \in BOOLEAN :
          FetchResolves(r, ok, body)
    \/ \E r \in Requests : TextResolves(r)
    \/ \E r \in Requests : \E timedOut \in BOOLEAN : FetchRejects(r, timedOut)
    \/ \E r \in Requests : Release(r)
    \/ Tick

Spec == Init /\ [][Next]_vars

(* ---------------- timers and callbacks that are bound to run ----------- *)
\* line 55: the abort timer of the probe started at s fires
ProbeAborts(i, s) ==
    /\ now >= s + HEALTH_TIMEOUT_MS
    /\ ProbeCompletes(i, s, FALSE)

\* Time diverges: handlers that run to completion within an instant cannot
\* hold the clock back for ever, however many requests arrive.  And what
\* depends only on the process itself happens: the interval timer (line
\* 87), the abort timers (lines 55, 137-140), the read of an empty body
\* (line 169) and the setImmediate callback (line 203).  Nothing is assumed
\* of the backends.
Fairness ==
    /\ <>(now = MaxTime)
    /\ WF_vars(RunHealthChecks)
    /\ \A i \in Instances : \A s \in 0 .. MaxTime : WF_vars(ProbeAborts(i, s))
    /\ \A r \in Requests : WF_vars(FetchRejects(r, TRUE))
    /\ \A r \in Requests : WF_vars(TextResolves(r))
    /\ \A r \in Requests : WF_vars(Release(r))

FairSpec == Init /\ [][Next]_vars /\ Fairness

(* ---------------- a backend that has recovered ------------------------- *)
\* the instant from which the backends answer well
HealFrom == 2

\* From HealFrom on every probe that completes has received an OK response
\* (line 58, res.ok) and every dispatch that completes has received a 2xx
\* response the handler relays (lines 149-171): no probe and no proxied
\* request fails.  The timers stay armed: under Fairness a call still
\* pending at its deadline is one the backend has not answered, which this
\* configuration of the environment rules out.
ProbeCompletesHealed(i, s, ok) ==
    /\ now >= HealFrom => ok
    /\ ProbeCompletes(i, s, ok)

FetchResolvesHealed(r, ok, body) ==
    /\ now >= HealFrom => (ok /\ ~ body)
    /\ FetchResolves(r, ok, body)

FetchRejectsHealed(r, timedOut) ==
    /\ now < HealFrom
    /\ FetchRejects(r, timedOut)

NextRecover ==
    \/ RunHealthChecks
    \/ \E i \in Instances : \E s \in 0 .. MaxTime : \E ok \in BOOLEAN :
          ProbeCompletesHealed(i, s, ok)
    \/ \E r \in Requests : Generate(r)
    \/ \E r \in Requests : \E ok \in BOOLEAN : \E body \in BOOLEAN :
          FetchResolvesHealed(r, ok, body)
    \/ \E r \in Requests : TextResolves(r)
    \/ \E r \in Requests : \E timedOut \in BOOLEAN :
          FetchRejectsHealed(r, timedOut)
    \/ \E r \in Requests : Release(r)
    \/ Tick

SpecRecover == Init /\ [][NextRecover]_vars /\ Fairness

(* ---------------- a slow-probe configuration --------------------------- *)
\* the same program under a configuration whose health_check_timeout is
\* larger than its health_check_interval
SLOW_HEALTH_TIMEOUT_MS == 3

ProbeCompletesSlow(i, s, ok) ==
    ProbeCompletesWithin(SLOW_HEALTH_TIMEOUT_MS, i, s, ok)

TickSlow == TickWithin(SLOW_HEALTH_TIMEOUT_MS)

NextSlowProbe ==
    \/ RunHealthChecks
    \/ \E i \in Instances : \E s \in 0 .. MaxTime : \E ok \in BOOLEAN :
          ProbeCompletesSlow(i, s, ok)
    \/ \E r \in Requests : Generate(r)
    \/ \E r \in Requests : \E ok \in BOOLEAN : \E body \in BOOLEAN :
          FetchResolves(r, ok, body)
    \/ \E r \in Requests : TextResolves(r)
    \/ \E r \in Requests : \E timedOut \in BOOLEAN : FetchRejects(r, timedOut)
    \/ \E r \in Requests : Release(r)
    \/ TickSlow

SpecSlowProbe == Init /\ [][NextSlowProbe]_vars

(* ---------------- selection over drawn registries ---------------------- *)
\* pickInstance as used by POST /generate, applied to every registry of
\* PickInstances backends: any health flag, any load up to the cap, circuit
\* closed or open
PickInstances == 3

PickRegistry ==
    [1 .. PickInstances ->
        {[NewInstance EXCEPT !.healthy = h, !.activeRequests = a,
                             !.circuitOpenUntil = c] :
            h \in BOOLEAN, a \in 0 .. MAX_ACTIVE, c \in {0, 2}}]

InitPick ==
    /\ now = 1
    /\ instances \in PickRegistry
    /\ probes = [i \in 1 .. PickInstances |-> {}]
    /\ nextCheck = HEALTH_INTERVAL_MS
    /\ req = [r \in Requests |-> NewRequest]

NextPick == \E r \in Requests : Generate(r)

SpecPick == InitPick /\ [][NextPick]_vars

(* ======================= properties ==================================== *)
\* steps of a POST /generate handler, read off the slot it runs in
Arrived(r) == req[r].pc \in Resting /\ req'[r] # req[r]
HandlerEnds(r) == req[r].pc \in {"fetch", "text"} /\ req'[r].pc = "release"
TimesOut(r) == ~ req[r].timedOut /\ req'[r].timedOut
Released(r) == req[r].pc = "release" /\ req'[r].pc \in Resting
\* a probe of instance i completes
ProbeDone(i) == probes'[i] # probes[i] /\ probes'[i] \subseteq probes[i]

EligibleNow(i) ==
    /\ instances[i].healthy = TRUE
    /\ now >= instances[i].circuitOpenUntil
    /\ instances[i].activeRequests < MAX_ACTIVE

\* C1: no step increments activeRequests of a backend (admits a request to
\* it) at a moment when now < circuitOpenUntil for that backend, whatever its
\* healthy flag or load is.
C1_NoAdmissionWhileCircuitOpen ==
    [][\A i \in DOMAIN instances :
          instances'[i].activeRequests > instances[i].activeRequests =>
              /\ ~ (now < instances[i].circuitOpenUntil)
              /\ \E r \in Requests :
                    /\ req[r].pc \in Resting
                    /\ req'[r].pc = "fetch"
                    /\ req'[r].inst = i]_vars

\* a request admitted at this instant to a backend whose circuit was opened
\* earlier and has expired
C1_Witness ==
    \E r \in Requests :
        /\ req[r].pc = "fetch"
        /\ req[r].start = now
        /\ instances[req[r].inst].circuitOpenUntil > 0
        /\ instances[req[r].inst].circuitOpenUntil <= now

\* C2: pickInstance returns null iff no backend is healthy, circuit-closed
\* and below the cap; otherwise it returns an eligible backend with the
\* smallest activeRequests, the first in configuration order among ties.
C2_PickLeastLoadedFirstListed ==
    LET p == pickInstance(instances, now)
    IN  /\ p = 0 <=> ~ \E i \in DOMAIN instances : EligibleNow(i)
        /\ p # 0 =>
              /\ p \in DOMAIN instances
              /\ EligibleNow(p)
              /\ \A j \in DOMAIN instances :
                    EligibleNow(j) =>
                        \/ instances[p].activeRequests
                              < instances[j].activeRequests
                        \/ /\ instances[p].activeRequests
                                 = instances[j].activeRequests
                           /\ p <= j

\* the second backend was picked and admitted a request: the first carries
\* more load, the third ties with the second
C2_Witness ==
    /\ 3 \in DOMAIN instances
    /\ \E r \in Requests : req[r].pc = "fetch" /\ req[r].inst = 2
    /\ instances[2].activeRequests = 1
    /\ instances[1].healthy /\ now >= instances[1].circuitOpenUntil
    /\ instances[1].activeRequests = 1
    /\ instances[3].healthy /\ now >= instances[3].circuitOpenUntil
    /\ instances[3].activeRequests = 0
    /\ \A r \in Requests : req[r].pc = "fetch" => req[r].inst = 2

\* C3: activeRequests of every backend is never negative and always equals
\* the number of admitted requests not yet released (so it is back at its
\* starting value once all have drained); it changes only by +1 in the
\* admission of a request and by -1 in the release of one.
C3_ActiveRequestsBalanced ==
    [][\A i \in DOMAIN instances :
          LET before == instances[i].activeRequests
              after == instances'[i].activeRequests
              inFlightAfter ==
                  {r \in Requests : /\ req'[r].pc \in {"fetch", "text", "release"}
                                    /\ req'[r].inst = i}
          IN  /\ after >= 0
              /\ after = Cardinality(inFlightAfter)
              /\ after # before =>
                    \/ /\ after = before + 1
                       /\ \E r \in Requests :
                             /\ req[r].pc \in Resting
                             /\ req'[r].pc = "fetch"
                             /\ req'[r].inst = i
                    \/ /\ after = before - 1
                       /\ \E r \in Requests : Released(r) /\ req[r].inst = i
              /\ \A r \in Requests :
                    /\ (req[r].pc \in Resting /\ req'[r].pc = "fetch"
                           /\ req'[r].inst = i) => after = before + 1
                    /\ (Released(r) /\ req[r].inst = i) => after = before - 1]_vars

\* all requests have drained after two of them were in flight together
C3_Witness ==
    /\ \A r \in Requests : req[r].pc \in Resting
    /\ \E r \in Requests : r > 1 /\ req[r].pc = "done"
    /\ \A i \in DOMAIN instances : instances[i].activeRequests = 0
    /\ \E i \in DOMAIN instances : instances[i].circuitOpenUntil > 0

\* C4: in every reachable state consecutiveFailures is below the configured
\* threshold for every backend (reaching the threshold opens the circuit and
\* resets the count in the same step).
C4_FailuresBelowThreshold ==
    \A i \in DOMAIN instances :
        instances[i].consecutiveFailures < MAX_CONSEC_FAILS

\* C5: a POST /generate that finds no eligible backend responds 503 with
\* play_signal NO_TTS_AVAILABLE, changes no field of any backend and leaves
\* no callback behind.
C5_UnavailableChangesNothing ==
    [][\A r \in Requests :
          (Arrived(r) /\ ~ \E i \in DOMAIN instances : EligibleNow(i)) =>
              /\ req'[r].status = 503
              /\ req'[r].signal = "NO_TTS_AVAILABLE"
              /\ req'[r].pc = "done"
              /\ instances' = instances
              /\ probes' = probes]_vars

\* a request was answered 503 while the running handlers fill a healthy
\* backend up to the cap
C5_Witness ==
    \E r \in Requests :
        /\ r > MAX_ACTIVE
        /\ req[r].pc = "done"
        /\ req[r].status = 503
        /\ \A i \in DOMAIN instances :
              /\ instances[i].healthy
              /\ now >= instances[i].circuitOpenUntil
              /\ instances[i].activeRequests = MAX_ACTIVE

\* C6 as stated: a dispatch that times out answers 504 TTS_INSTANCE_TIMEOUT,
\* leaves consecutiveFailures at exactly its prior value plus 1 for every
\* prior value, and its release takes activeRequests down by the one it added.
C6_TimeoutCountsExactlyOne ==
    [][\A r \in Requests :
          LET i == req[r].inst
          IN  /\ TimesOut(r) =>
                    /\ req'[r].status = 504
                    /\ req'[r].signal = "TTS_INSTANCE_TIMEOUT"
                    /\ instances'[i].consecutiveFailures
                          = instances[i].consecutiveFailures + 1
                    /\ instances'[i].activeRequests
                          = instances[i].activeRequests
              /\ (Released(r) /\ req[r].timedOut) =>
                    instances'[i].activeRequests
                        = instances[i].activeRequests - 1]_vars

\* C6 amended: a dispatch that times out answers 504 TTS_INSTANCE_TIMEOUT
\* and adds 1 to consecutiveFailures; if the sum reaches the threshold the
\* circuit opens and the count is 0 instead; its release takes activeRequests
\* down by the one it added.
C6_TimeoutCountsOrOpens ==
    [][\A r \in Requests :
          LET i == req[r].inst
              sum == instances[i].consecutiveFailures + 1
          IN  /\ TimesOut(r) =>
                    /\ req'[r].status = 504
                    /\ req'[r].signal = "TTS_INSTANCE_TIMEOUT"
                    /\ sum < MAX_CONSEC_FAILS =>
                          /\ instances'[i].consecutiveFailures = sum
                          /\ instances'[i].circuitOpenUntil
                                = instances[i].circuitOpenUntil
                    /\ sum >= MAX_CONSEC_FAILS =>
                          /\ instances'[i].consecutiveFailures = 0
                          /\ instances'[i].circuitOpenUntil
                                = now + CIRCUIT_BREAKER_MS
                    /\ instances'[i].activeRequests
                          = instances[i].activeRequests
              /\ (Released(r) /\ req[r].timedOut) =>
                    instances'[i].activeRequests
                        = instances[i].activeRequests - 1]_vars

\* a timed-out request has been answered 504 and the failure it counted is
\* the first of a new run
C6_Witness ==
    \E r \in Requests :
        /\ req[r].pc = "release"
        /\ req[r].timedOut
        /\ req[r].status = 504
        /\ now = req[r].start + UPSTREAM_TIMEOUT_MS
        /\ instances[req[r].inst].consecutiveFailures = 1

\* C7: when the handler of a request whose backend answered 2xx finishes,
\* that backend's consecutiveFailures is 0, with or without a body.
C7_SuccessResetsFailures ==
    [][\A r \in Requests :
          (HandlerEnds(r) /\ req'[r].upstream = "2xx") =>
              instances'[req'[r].inst].consecutiveFailures = 0]_vars

\* C8: a successful probe leaves consecutiveFailures at 0; a failed probe
\* below the threshold leaves it one higher; in a step of no request handler
\* the count decreases only by a successful probe or by a probe whose
\* failure reaches the threshold and opens the circuit.
C8_ProbeFailureCount ==
    [][\A i \in DOMAIN instances :
          LET before == instances[i].consecutiveFailures
              after == instances'[i].consecutiveFailures
          IN  /\ (ProbeDone(i) /\ instances'[i].healthy) => after = 0
              /\ (ProbeDone(i) /\ ~ instances'[i].healthy
                     /\ before + 1 < MAX_CONSEC_FAILS) => after = before + 1
              /\ (req' = req /\ after < before) =>
                    /\ ProbeDone(i)
                    /\ \/ instances'[i].healthy
                       \/ /\ before + 1 >= MAX_CONSEC_FAILS
                          /\ instances'[i].circuitOpenUntil
                                = now + CIRCUIT_BREAKER_MS]_vars

\* a probe has just succeeded on a backend whose circuit had been opened
C8_Witness ==
    \E i \in DOMAIN instances :
        /\ instances[i].healthy
        /\ instances[i].consecutiveFailures = 0
        /\ instances[i].circuitOpenUntil > 0
        /\ instances[i].circuitOpenUntil <= now
        /\ instances[i].lastChecked = now
        /\ probes[i] = {}

C10_FailedDispatchMarksUnhealthy ==
    [][\A r \in Requests :
          (HandlerEnds(r) /\ req'[r].upstream # "2xx") =>
              LET i == req'[r].inst
              IN  /\ instances'[i].healthy = FALSE
                  /\ instances[i].consecutiveFailures + 1 >= MAX_CONSEC_FAILS =>
                        /\ instances'[i].circuitOpenUntil
                              = now + CIRCUIT_BREAKER_MS
                        /\ instances'[i].consecutiveFailures = 0]_vars

\* C11: every failure the caller sees carries a play_signal: no eligible
\* backend gives 503 NO_TTS_AVAILABLE, a dispatch timeout gives 504
\* TTS_INSTANCE_TIMEOUT, every other failed dispatch (rejected fetch or
\* non-2xx backend status) gives 502 TTS_INSTANCE_FAILURE, and each signal
\* goes with its own status only.
C11_FailuresAreStructured ==
    [][\A r \in Requests :
          /\ (Arrived(r) /\ req'[r].pc = "done") =>
                /\ req'[r].status = 503
                /\ req'[r].signal = "NO_TTS_AVAILABLE"
          /\ (HandlerEnds(r) /\ req'[r].timedOut) =>
                /\ req'[r].status = 504
                /\ req'[r].signal = "TTS_INSTANCE_TIMEOUT"
          /\ (HandlerEnds(r) /\ ~ req'[r].timedOut
                 /\ req'[r].upstream # "2xx") =>
                /\ req'[r].status = 502
                /\ req'[r].signal = "TTS_INSTANCE_FAILURE"
          /\ req'[r].signal = "NO_TTS_AVAILABLE" <=> req'[r].status = 503
          /\ req'[r].signal = "TTS_INSTANCE_TIMEOUT" <=> req'[r].status = 504
          /\ req'[r].signal = "TTS_INSTANCE_FAILURE" <=> req'[r].status = 502]_vars

\* C12 as stated: healthyCount of GET /health is the number of backends
\* eligible for traffic (healthy, circuit closed, below the cap), status is
\* "ok" iff that number is positive, and /health does not say "ok" when
\* POST /generate would answer 503.
C12_HealthCountsEligible ==
    LET eligible == {i \in DOMAIN instances : EligibleNow(i)}
    IN  /\ healthyCount(instances, now) = Cardinality(eligible)
        /\ healthStatus(instances, now) = "ok" <=> Cardinality(eligible) > 0
        /\ healthStatus(instances, now) = "ok" =>
              pickInstance(instances, now) # 0

\* C12 amended: healthyCount is the number of backends that are healthy with
\* the circuit closed, whatever their load; status is "ok" iff that number
\* is positive; /health says "ok" while POST /generate would answer 503
\* only when every such backend is at the cap.
C12_HealthCountsHealthyClosed ==
    LET closed == {i \in DOMAIN instances :
                      /\ instances[i].healthy = TRUE
                      /\ now >= instances[i].circuitOpenUntil}
    IN  /\ healthyCount(instances, now) = Cardinality(closed)
        /\ healthStatus(instances, now) = "ok" <=> Cardinality(closed) > 0
        /\ (healthStatus(instances, now) = "ok"
               /\ pickInstance(instances, now) = 0) =>
              \A i \in closed : instances[i].activeRequests >= MAX_ACTIVE

\* /health says "ok" with a positive count while a request has just been
\* answered 503: the healthy backend is at the cap
C12_Witness ==
    /\ healthStatus(instances, now) = "ok"
    /\ healthyCount(instances, now) = Cardinality(DOMAIN instances)
    /\ pickInstance(instances, now) = 0
    /\ \E r \in Requests : req[r].pc = "done" /\ req[r].status = 503
    /\ \A r \in Requests : req[r].pc # "done" => req[r].pc = "fetch"

\* C14: a probe of a backend that starts while now < circuitOpenUntil issues
\* no fetch, sets healthy = false and lastChecked = now, and leaves
\* consecutiveFailures, circuitOpenUntil and activeRequests as they were.
C14_OpenCircuitProbeIsSkipped ==
    [][\A i \in DOMAIN instances :
          (nextCheck' # nextCheck /\ now < instances[i].circuitOpenUntil) =>
              /\ probes'[i] = probes[i]
              /\ instances'[i].healthy = FALSE
              /\ instances'[i].lastChecked = now
              /\ instances'[i].consecutiveFailures
                    = instances[i].consecutiveFailures
              /\ instances'[i].circuitOpenUntil
                    = instances[i].circuitOpenUntil
              /\ instances'[i].activeRequests
                    = instances[i].activeRequests]_vars

\* a cycle has just run and skipped a backend whose circuit was opened at
\* an earlier time and is still open
C14_Witness ==
    \E i \in DOMAIN instances :
        /\ now < instances[i].circuitOpenUntil
        /\ instances[i].circuitOpenUntil < now + CIRCUIT_BREAKER_MS
        /\ instances[i].healthy = FALSE
        /\ instances[i].lastChecked = now
        /\ nextCheck = now + HEALTH_INTERVAL_MS
        /\ probes[i] = {}

\* C15: probe cycles never overlap, whatever the configured interval and
\* timeout: at most one probe per backend is outstanding at any time.
C15_OneProbeOutstanding ==
    \A i \in DOMAIN probes : Cardinality(probes[i]) <= 1

\* a probe of instance i completes without an OK response
ProbeFails(i) == ProbeDone(i) /\ ~ instances'[i].healthy
\* the catch block of a request dispatched to instance i responds
DispatchFails(i) ==
    \E r \in Requests :
        /\ req[r].pc = "fetch"
        /\ req[r].inst = i
        /\ req'[r].pc = "release"
        /\ req'[r].status \in {502, 504}

C17_OutboundCallsAreBounded ==
    <>[](/\ \A i \in Instances : \A s \in probes[i] :
               s + HEALTH_TIMEOUT_MS > MaxTime
         /\ \A r \in Requests :
               req[r].pc \notin Resting =>
                   req[r].start + UPSTREAM_TIMEOUT_MS > MaxTime
         /\ \A i \in Instances :
               instances[i].activeRequests =
                   Cardinality({r \in Requests :
                                  req[r].pc \notin Resting /\ req[r].inst = i}))

\* a dispatch the backend never answered has been cancelled at its deadline,
\* after the probe of the same backend had completed
C17_Witness ==
    \E r \in Requests :
        /\ req[r].pc = "release"
        /\ req[r].timedOut
        /\ req[r].upstream = "none"
        /\ now = req[r].start + UPSTREAM_TIMEOUT_MS
        /\ probes[req[r].inst] = {}

\* C18: in every reachable state, for every backend, now < circuitOpenUntil
\* implies healthy = false.
C18_OpenCircuitIsUnhealthy ==
    \A i \in DOMAIN instances :
        now < instances[i].circuitOpenUntil => instances[i].healthy = FALSE

\* C19: in every reachable state and for every backend,
\* activeRequests <= MAX_ACTIVE.
C19_ActiveRequestsWithinCap ==
    \A i \in DOMAIN instances : instances[i].activeRequests <= MAX_ACTIVE

\* a backend filled to the cap by requests that are all awaiting its answer,
\* while a further request has been turned away
C19_Witness ==
    \E i \in DOMAIN instances :
        /\ instances[i].activeRequests = MAX_ACTIVE
        /\ Cardinality({r \in Requests :
                          req[r].pc = "fetch" /\ req[r].inst = i}) = MAX_ACTIVE
        /\ \E r \in Requests : req[r].status = 503

\* C20: healthy changes from false to true only in a step in which a probe
\* of that backend completes with an OK response (no handler of a request
\* moves in that step); it starts false; and a request is admitted only to
\* a backend that is healthy.
C20_OnlyProbeMarksHealthy ==
    /\ \A i \in DOMAIN instances : ~ instances[i].healthy
    /\ [][\A i \in DOMAIN instances :
             /\ (~ instances[i].healthy /\ instances'[i].healthy) =>
                    /\ ProbeDone(i)
                    /\ req' = req
                    /\ instances'[i].consecutiveFailures = 0
             /\ instances'[i].activeRequests > instances[i].activeRequests =>
                    instances[i].healthy]_vars

\* a request admitted at this instant to a backend that the request path had
\* marked unhealthy and a probe has just found healthy again
C20_Witness ==
    \E r \in Requests :
        /\ req[r].pc = "fetch"
        /\ req[r].start = now
        /\ instances[req[r].inst].healthy
        /\ instances[req[r].inst].lastChecked = now
        /\ instances[req[r].inst].consecutiveFailures = 0
        /\ \E q \in Requests : req[q].pc = "release" /\ req[q].status = 502

\* C21: recovery.  When from some point on the backends answer every probe
\* with OK and no proxied request fails, and the clock advances and the
\* timers fire, every backend whose circuit has been opened becomes eligible
\* again (healthy = true and now >= circuitOpenUntil) and stays so: an open
\* circuit is never permanent.
C21_OpenCircuitRecovers ==
    <>[](\A i \in Instances :
            instances[i].circuitOpenUntil > 0 =>
                /\ instances[i].healthy
                /\ now >= instances[i].circuitOpenUntil)

\* a backend whose circuit had been opened and has expired is picked again,
\* after a probe later than the deadline found it healthy
C21_Witness ==
    \E i \in Instances :
        /\ now >= HealFrom
        /\ instances[i].circuitOpenUntil > 0
        /\ instances[i].lastChecked >= instances[i].circuitOpenUntil
        /\ instances[i].healthy
        /\ pickInstance(instances, now) = i
====
